---- MODULE Spec2Model ----
(***************************************************************************)
(* A model of the vector-knowledge-store pipeline:                         *)
(*   - the chunker            (src/src/ingestion/text_processor.py)        *)
(*   - the query path         (src/src/search, src/src/azure)              *)
(*   - the ingestion path     (src/ingest.py, src/src/ingestion)           *)
(* Positions in texts are Python's 0-based offsets; a text is a sequence   *)
(* of one-character strings.                                               *)
(***************************************************************************)
EXTENDS Integers, Sequences, FiniteSets, TLC

VARIABLES
    \* ---- chunker (TextProcessor._chunk_text) ----
    text,        \* the argument of _chunk_text
    chunk_size,  \* CHUNK_SIZE of the run
    overlap,     \* CHUNK_OVERLAP of the run
    ntext,       \* the local `text` after the two re.sub calls
    chunks,      \* the local list `chunks`
    start,       \* the cursor `start`
    cpc,         \* position in _chunk_text: "idle", "loop", "done"
    \* ---- query path (QueryProcessor, VectorStore, the two services) ----
    qentry,      \* the operation called: "none", "process_query", "get_answer"
    query,       \* the question
    qfilter,     \* filter_conditions ("None" or an OData expression)
    backend,     \* the results search_client.search returned
    search_results, \* the list vector_search returned
    context,     \* the context argument of generate_answer
    qresult,     \* the dictionary returned to the caller
    qerror,      \* the exception raised to the caller, "none" if none
    qlog,        \* the network requests issued, in order, with their outcome
    qpc,         \* "idle", "embed", "search", "complete", "done"
    \* ---- ingestion path (ingest.py, EmbeddingGenerator, VectorStore) ----
    ientry,      \* the operation called: "none", "generate_embeddings",
                 \* "ingest_documents", "ingest_directory"
    ipc,         \* position in the ingestion code, the next request to issue
    files,       \* the list `files` of ingest_directory
    skip_upload, \* the --skip-upload flag
    fidx,        \* number of the file being ingested, 0 if none
    results,     \* the list `results` of ingest_directory
    doc_chunks,  \* the chunk dictionaries of the current document
    all_embeddings, \* the list `all_embeddings` of _get_embeddings
    eoff,        \* the loop variable i of _get_embeddings
    uoff,        \* the loop variable i of index_documents
    index,       \* the records of the search index
    index_exists, \* the index is in the backend's list of indexes
    blobs,       \* the names of the blobs in the container
    ilog,        \* the requests issued, in order, with their outcome
    reports,     \* the "Indexed k/n" lines index_documents logs
    ierror,      \* the exception being raised, "none" if none
    uuid_next,   \* the next value uuid.uuid4 yields
    \* ---- the ingestion command (main of ingest.py) ----
    imode,       \* "file" for --file, "dir" for --dir, "none" without main
    path_exists, \* the path named on the command line exists
    exit_code,   \* the value main returned, -1 before it returns
    \* ---- the query command (query.py) ----
    qmode,       \* "oneshot", "interactive", "none" without the command
    cli_filter,  \* the value of --filter, "None" when it was not given
    lines        \* the query argument, or the lines read so far

chunkVars == <<text, chunk_size, overlap, ntext, chunks, start, cpc>>

queryVars == <<qentry, query, qfilter, backend, search_results, context,
               qresult, qerror, qlog, qpc>>

ingestVars == <<ientry, ipc, files, skip_upload, fidx, results, doc_chunks,
                all_embeddings, eoff, uoff, index, index_exists, blobs, ilog,
                reports, ierror, uuid_next>>

mainVars == <<imode, path_exists, exit_code>>

cliVars == <<qmode, cli_filter, lines>>

vars == <<chunkVars, queryVars, ingestVars, mainVars, cliVars>>

----------------------------------------------------------------------------
(* Bounds of the model *)

\* longest input text of the chunker
MaxTextLen == 5
\* largest CHUNK_SIZE tried (settings.py fixes 1000; the chunker's claims
\* range over every chunk_size > overlap)
MaxChunkSize == 3
\* the sentence lookahead (100 characters in _find_sentence_end), scaled to
\* the texts of the model so that the window ends before the text does
SentenceWindow == 2
\* the word lookahead (50 characters in _find_word_end), scaled likewise
WordWindow == 1
\* longest result list of the index backend, longest context of get_answer
MaxResults == 3
\* most lines read in one interactive session
MaxLines == 2
\* longest list the backend returns to a query of the query command
CliMaxResults == 1
\* longest list of chunks handed to generate_embeddings
MaxTexts == 33
\* longest list of records handed to VectorStore.ingest_documents
MaxRecords == 201
\* most files in the directory
MaxFiles == 2
\* number of different chunk texts in a list handed to generate_embeddings
MaxTextKinds == 3

----------------------------------------------------------------------------
(* Characters *)

NL == "\n"
SP == " "
Alphabet == {"a", ".", "!", "?", SP, NL}
\* the characters of the alphabet that Python's \s matches
Whitespace == {SP, NL, "\t", "\r"}

Min(a, b) == IF a <= b THEN a ELSE b

\* Python's s[a:b] for 0 <= a, b <= len(s)
Slice(s, a, b) == SubSeq(s, a + 1, b)

\* all sequences over S of length 0..n
SeqsUpTo(S, n) == UNION {[1..k -> S] : k \in 0..n}

----------------------------------------------------------------------------
(* Whitespace normalisation, text_processor.py:58-59 *)

\* number of consecutive characters of set C in s from 0-based offset i
RECURSIVE RunLen(_, _, _)
RunLen(s, i, C) ==
    IF i < Len(s) /\ s[i + 1] \in C THEN 1 + RunLen(s, i + 1, C) ELSE 0

\* re.sub(r'\n{3,}', '\n\n', s), scanning from offset i
RECURSIVE SubNewlinesFrom(_, _)
SubNewlinesFrom(s, i) ==
    IF i >= Len(s) THEN <<>>
    ELSE LET k == RunLen(s, i, {NL}) IN
         IF k >= 3 THEN <<NL, NL>> \o SubNewlinesFrom(s, i + k)
         ELSE <<s[i + 1]>> \o SubNewlinesFrom(s, i + 1)

SubNewlines(s) == SubNewlinesFrom(s, 0)

\* re.sub(r'\s{2,}', ' ', s), scanning from offset i
RECURSIVE SubWhitespaceFrom(_, _)
SubWhitespaceFrom(s, i) ==
    IF i >= Len(s) THEN <<>>
    ELSE LET k == RunLen(s, i, Whitespace) IN
         IF k >= 2 THEN <<SP>> \o SubWhitespaceFrom(s, i + k)
         ELSE <<s[i + 1]>> \o SubWhitespaceFrom(s, i + 1)

SubWhitespace(s) == SubWhitespaceFrom(s, 0)

Normalize(s) == SubWhitespace(SubNewlines(s))

----------------------------------------------------------------------------
(* Boundary search, text_processor.py:87-108 *)

\* the patterns of _find_sentence_end, in the order of its for loop
SentencePatterns == << <<".">>, <<"!">>, <<"?">>, <<NL, NL>> >>

\* pat matches s at offset i and ends inside s[:w]
MatchAt(s, i, pat, w) ==
    /\ i + Len(pat) <= w
    /\ \A k \in 1..Len(pat) : s[i + k] = pat[k]

\* offsets in [p, w) at which pat matches within s[p:w]
MatchStarts(s, p, w, pat) == {i \in p..(w - 1) : MatchAt(s, i, pat, w)}

SetMin(S) == CHOOSE x \in S : \A y \in S : x <= y

\* the for loop of _find_sentence_end from pattern number n on
RECURSIVE SentenceEndFrom(_, _, _, _)
SentenceEndFrom(s, position, w, n) ==
    IF n > Len(SentencePatterns) THEN position
    ELSE LET ms == MatchStarts(s, position, w, SentencePatterns[n]) IN
         IF ms # {} THEN SetMin(ms) + Len(SentencePatterns[n])
         ELSE SentenceEndFrom(s, position, w, n + 1)

\* a _find_sentence_end that searches to the end of the text
FindSentenceEnd_Unbounded(s, position) ==
    SentenceEndFrom(s, position, Len(s), 1)

\* a _find_sentence_end that stops at the earliest terminator of any kind
FindSentenceEnd_Earliest(s, position) ==
    LET w == Min(position + SentenceWindow, Len(s))
        ends == {SetMin(MatchStarts(s, position, w, SentencePatterns[n]))
                    + Len(SentencePatterns[n]) :
                 n \in {m \in 1..Len(SentencePatterns) :
                           MatchStarts(s, position, w, SentencePatterns[m]) # {}}}
    IN IF ends = {} THEN position ELSE SetMin(ends)

FindSentenceEnd(s, position) ==
    LET search_window == Min(position + SentenceWindow, Len(s)) IN
    SentenceEndFrom(s, position, search_window, 1)

FindWordEnd(s, position) ==
    IF position >= Len(s) THEN Len(s)
    ELSE LET w == Min(position + WordWindow, Len(s))
             sp == {i \in position..(w - 1) : s[i + 1] = SP}
         IN IF sp # {} THEN SetMin(sp) + 1 ELSE position

----------------------------------------------------------------------------
(* The chunker, text_processor.py:44-85 *)

\* a cursor that restarts at the boundary, sharing nothing
NextStart_NoOverlap(boundary, ov) == boundary

\* lines 78 and 83: the cursor after a chunk that ends at `boundary`
NextStart(boundary, ov) == boundary - ov

ChunkIdle ==
    /\ text = <<>>
    /\ chunk_size = 1
    /\ overlap = 0
    /\ ntext = <<>>
    /\ chunks = <<>>
    /\ start = 0
    /\ cpc = "off"

ChunkInit ==
    /\ text \in SeqsUpTo(Alphabet, MaxTextLen)
    /\ chunk_size \in 1..MaxChunkSize
    /\ overlap \in 0..(chunk_size - 1)
    /\ ntext = <<>>
    /\ chunks = <<>>
    /\ start = 0
    /\ cpc = "idle"

\* the characters that decide how far the cursor moves: a letter, a
\* terminator, and the two kinds of whitespace
TerminationAlphabet == {"a", ".", SP, NL}

\* settings that allow an overlap as large as the chunk
ChunkInitLive_FullOverlap ==
    /\ text \in SeqsUpTo(TerminationAlphabet, MaxTextLen)
    /\ chunk_size \in 1..MaxChunkSize
    /\ overlap \in 0..chunk_size
    /\ ntext = <<>>
    /\ chunks = <<>>
    /\ start = 0
    /\ cpc = "idle"

\* the calls of _chunk_text whose termination is checked
ChunkInitLive ==
    /\ text \in SeqsUpTo(TerminationAlphabet, MaxTextLen)
    /\ chunk_size \in 1..MaxChunkSize
    /\ overlap \in 0..(chunk_size - 1)
    /\ ntext = <<>>
    /\ chunks = <<>>
    /\ start = 0
    /\ cpc = "idle"

\* lines 54-63: the empty-text return, the normalisation, the loop's set-up
ChunkStart ==
    /\ cpc = "idle"
    /\ IF text = <<>>
       THEN /\ cpc' = "done"
            /\ ntext' = ntext
       ELSE /\ cpc' = "loop"
            /\ ntext' = Normalize(text)
    /\ chunks' = <<>>
    /\ start' = 0
    /\ UNCHANGED <<text, chunk_size, overlap>>
    /\ UNCHANGED <<queryVars, ingestVars, mainVars, cliVars>>

\* a loop that is over once a chunk has reached the end of the text
ChunkIter_StopAtEnd ==
    /\ cpc = "loop"
    /\ start < Len(ntext)
    /\ LET end == start + chunk_size IN
       IF end >= Len(ntext)
       THEN /\ chunks' = Append(chunks, Slice(ntext, start, Len(ntext)))
            /\ cpc' = "done"
            /\ start' = start
       ELSE LET sentence_end == FindSentenceEnd(ntext, end) IN
            /\ chunks' = Append(chunks, Slice(ntext, start, sentence_end))
            /\ start' = IF sentence_end = Len(ntext) THEN Len(ntext)
                        ELSE NextStart(sentence_end, overlap)
            /\ cpc' = "loop"
    /\ UNCHANGED <<text, chunk_size, overlap, ntext>>
    /\ UNCHANGED <<queryVars, ingestVars, mainVars, cliVars>>

\* lines 65-83: one iteration of the while loop
ChunkIter ==
    /\ cpc = "loop"
    /\ start < Len(ntext)
    /\ LET end == start + chunk_size IN
       IF end >= Len(ntext)
       THEN /\ chunks' = Append(chunks, Slice(ntext, start, Len(ntext)))
            /\ cpc' = "done"
            /\ start' = start
       ELSE LET sentence_end == FindSentenceEnd(ntext, end) IN
            IF sentence_end > start
            THEN /\ chunks' = Append(chunks, Slice(ntext, start, sentence_end))
                 /\ start' = NextStart(sentence_end, overlap)
                 /\ cpc' = "loop"
            ELSE LET word_end == FindWordEnd(ntext, end) IN
                 /\ chunks' = Append(chunks, Slice(ntext, start, word_end))
                 /\ start' = NextStart(word_end, overlap)
                 /\ cpc' = "loop"
    /\ UNCHANGED <<text, chunk_size, overlap, ntext>>
    /\ UNCHANGED <<queryVars, ingestVars, mainVars, cliVars>>

\* lines 65 and 85: the loop condition fails, the chunks are returned
ChunkReturn ==
    /\ cpc = "loop"
    /\ start >= Len(ntext)
    /\ cpc' = "done"
    /\ UNCHANGED <<text, chunk_size, overlap, ntext, chunks, start>>
    /\ UNCHANGED <<queryVars, ingestVars, mainVars, cliVars>>

ChunkNext == ChunkStart \/ ChunkIter \/ ChunkReturn

----------------------------------------------------------------------------
(* The query path: QueryProcessor.process_query, VectorStore.search and    *)
(* get_answer, AzureSearchService.vector_search,                           *)
(* AzureOpenAIService.generate_embeddings and generate_answer.             *)
(* A step of the model is the code between two network requests.           *)

\* settings.py:33, 0.7; scores are in hundredths
SIMILARITY_THRESHOLD == 70

\* query_processor.py:36
FALLBACK_ANSWER == "I couldn't find any relevant information in your knowledge base to answer this question."

Queries == {"q1", "q2"}
Filters == {"None", "document_type eq 'pdf'"}
SourceNames == {"a.txt", "b.md"}
Paths == {"/d1", "/d2"}
Scores == {SIMILARITY_THRESHOLD - 1, SIMILARITY_THRESHOLD, SIMILARITY_THRESHOLD + 20}
\* texts the completion service may answer with
Completions == {"generated answer"}

\* a result of search_client.search with the selected fields
Hit(src, pth, sc) ==
    [id |-> <<"id", src, pth>>,
     text |-> <<"text of", src, pth>>,
     source |-> src,
     path |-> pth,
     document_type |-> IF src = "a.txt" THEN "txt" ELSE "md",
     search_score |-> sc]

Hits == {Hit(src, pth, sc) : src \in SourceNames, pth \in Paths, sc \in Scores}

\* ai_search.py:154-161, the dictionary built from one result
ToSearchResult(r) ==
    [id |-> r.id,
     text |-> r.text,
     source |-> r.source,
     path |-> r.path,
     document_type |-> r.document_type,
     score |-> r.search_score]

SearchResults == {ToSearchResult(r) : r \in Hits}

\* a post-filter that keeps every result
KeepResult_All(r) == TRUE

\* a post-filter that wants a score above the threshold
KeepResult_Strict(r) == r.search_score > SIMILARITY_THRESHOLD

\* ai_search.py:153, the threshold test
KeepResult(r) == r.search_score >= SIMILARITY_THRESHOLD

\* ai_search.py:150-163, the loop over the results from number i on
RECURSIVE FilterFrom(_, _)
FilterFrom(res, i) ==
    IF i > Len(res) THEN <<>>
    ELSE IF KeepResult(res[i])
         THEN <<ToSearchResult(res[i])>> \o FilterFrom(res, i + 1)
         ELSE FilterFrom(res, i + 1)

FilterByThreshold(res) == FilterFrom(res, 1)

\* the sources already listed, openai_service.py:97
ListedSources(srcs) == {srcs[j].source : j \in 1..Len(srcs)}

\* a sources list that gets an entry for every context item
AddSource_NoCheck(srcs, item) ==
    Append(srcs, [source |-> item.source, path |-> item.path])

\* openai_service.py:97-101, one iteration of the sources loop
AddSource(srcs, item) ==
    IF item.source \notin ListedSources(srcs)
    THEN Append(srcs, [source |-> item.source, path |-> item.path])
    ELSE srcs

\* openai_service.py:95-101, the sources loop over the first n items
RECURSIVE DedupSourcesUpTo(_, _)
DedupSourcesUpTo(ctx, n) ==
    IF n = 0 THEN <<>>
    ELSE AddSource(DedupSourcesUpTo(ctx, n - 1), ctx[n])

DedupSources(ctx) == DedupSourcesUpTo(ctx, Len(ctx))

NoResult == [answer |-> "", sources |-> <<>>]

QueryIdle ==
    /\ qentry = "none"
    /\ query = ""
    /\ qfilter = "None"
    /\ backend = <<>>
    /\ search_results = <<>>
    /\ context = <<>>
    /\ qresult = NoResult
    /\ qerror = "none"
    /\ qlog = <<>>

\* query.py is not running
CliOff ==
    /\ qmode = "none"
    /\ cli_filter = "None"
    /\ lines = <<>>

QueryOff == QueryIdle /\ CliOff /\ qpc = "off"

QueryInit == QueryIdle /\ CliOff /\ qpc = "idle"

\* query_processor.py:19-31 and vector_store.py:38-52: process_query is
\* called and reaches the embedding request of VectorStore.search
ProcessQueryCall ==
    /\ qpc = "idle"
    /\ \E q \in Queries, f \in Filters :
        /\ query' = q
        /\ qfilter' = f
    /\ qentry' = "process_query"
    /\ qpc' = "embed"
    /\ UNCHANGED <<backend, search_results, context, qresult, qerror, qlog>>
    /\ UNCHANGED <<chunkVars, ingestVars, mainVars, cliVars>>

\* openai_service.py:48-57 for the one-element list [query]: the request
\* succeeds, vector_store.py:52-55 goes on to the search request
EmbedQueryOk ==
    /\ qpc = "embed"
    /\ qlog' = Append(qlog, [op |-> "embed", arg |-> <<query>>, ok |-> TRUE])
    /\ qpc' = "search"
    /\ UNCHANGED <<qentry, query, qfilter, backend, search_results, context,
                   qresult, qerror>>
    /\ UNCHANGED <<chunkVars, ingestVars, mainVars, cliVars>>

\* an embedding request that is tried a second time before it is given up
EmbedQueryFail_Retry ==
    /\ qpc = "embed"
    /\ qlog' = Append(qlog, [op |-> "embed", arg |-> <<query>>, ok |-> FALSE])
    /\ IF qlog = <<>>
       THEN /\ qerror' = qerror
            /\ qpc' = "embed"
       ELSE /\ qerror' = "embed"
            /\ qpc' = "done"
    /\ UNCHANGED <<qentry, query, qfilter, backend, search_results, context,
                   qresult>>
    /\ UNCHANGED <<chunkVars, ingestVars, mainVars, cliVars>>

\* openai_service.py:59-61, vector_store.py:59-60, query_processor.py:45-47:
\* the request raises and every handler re-raises
EmbedQueryFail ==
    /\ qpc = "embed"
    /\ qlog' = Append(qlog, [op |-> "embed", arg |-> <<query>>, ok |-> FALSE])
    /\ qerror' = "embed"
    /\ qpc' = "done"
    /\ UNCHANGED <<qentry, query, qfilter, backend, search_results, context,
                   qresult>>
    /\ UNCHANGED <<chunkVars, ingestVars, mainVars, cliVars>>

\* ai_search.py:143-163: the search request returns one of `answers` and
\* vector_search filters it; query_processor.py:34-41: process_query
\* returns the fallback for an empty list and calls get_answer otherwise
VectorSearchReturns(answers) ==
    /\ qpc = "search"
    /\ qlog' = Append(qlog, [op |-> "search", arg |-> qfilter, ok |-> TRUE])
    /\ \E res \in answers :
        /\ backend' = res
        /\ search_results' = FilterByThreshold(res)
        /\ IF FilterByThreshold(res) = <<>>
           THEN /\ qresult' = [answer |-> FALLBACK_ANSWER, sources |-> <<>>]
                /\ qpc' = "done"
                /\ context' = context
           ELSE /\ context' = FilterByThreshold(res)
                /\ qpc' = "complete"
                /\ qresult' = qresult
    /\ UNCHANGED <<qentry, query, qfilter, qerror>>
    /\ UNCHANGED <<chunkVars, ingestVars, mainVars, cliVars>>

\* a process_query that always asks for an answer
VectorSearchOk_NoShortCircuit ==
    /\ qpc = "search"
    /\ qlog' = Append(qlog, [op |-> "search", arg |-> qfilter, ok |-> TRUE])
    /\ \E res \in SeqsUpTo(Hits, MaxResults) :
        /\ backend' = res
        /\ search_results' = FilterByThreshold(res)
        /\ context' = FilterByThreshold(res)
        /\ qpc' = "complete"
        /\ qresult' = qresult
    /\ UNCHANGED <<qentry, query, qfilter, qerror>>
    /\ UNCHANGED <<chunkVars, ingestVars, mainVars, cliVars>>

\* the search request answers with any list of up to MaxResults hits
VectorSearchOk == VectorSearchReturns(SeqsUpTo(Hits, MaxResults))

\* a search that answers a failed request with the empty list
VectorSearchFail_Empty ==
    /\ qpc = "search"
    /\ qlog' = Append(qlog, [op |-> "search", arg |-> qfilter, ok |-> FALSE])
    /\ qresult' = [answer |-> FALLBACK_ANSWER, sources |-> <<>>]
    /\ qpc' = "done"
    /\ UNCHANGED <<qentry, query, qfilter, backend, search_results, context,
                   qerror>>
    /\ UNCHANGED <<chunkVars, ingestVars, mainVars, cliVars>>

\* ai_search.py:165-167 and the callers' handlers: the search request raises
VectorSearchFail ==
    /\ qpc = "search"
    /\ qlog' = Append(qlog, [op |-> "search", arg |-> qfilter, ok |-> FALSE])
    /\ qerror' = "search"
    /\ qpc' = "done"
    /\ UNCHANGED <<qentry, query, qfilter, backend, search_results, context,
                   qresult>>
    /\ UNCHANGED <<chunkVars, ingestVars, mainVars, cliVars>>

\* vector_store.py:62-75: get_answer is called on its own with a context
GetAnswerCall ==
    /\ qpc = "idle"
    /\ \E q \in Queries, ctx \in SeqsUpTo(SearchResults, MaxResults) :
        /\ query' = q
        /\ context' = ctx
    /\ qentry' = "get_answer"
    /\ qpc' = "complete"
    /\ UNCHANGED <<qfilter, backend, search_results, qresult, qerror, qlog>>
    /\ UNCHANGED <<chunkVars, ingestVars, mainVars, cliVars>>

\* openai_service.py:75-106: the completion request answers, the sources
\* are listed and the dictionary is returned
CompleteOk ==
    /\ qpc = "complete"
    /\ qlog' = Append(qlog, [op |-> "complete", arg |-> query, ok |-> TRUE])
    /\ \E a \in Completions :
        qresult' = [answer |-> a, sources |-> DedupSources(context)]
    /\ qpc' = "done"
    /\ UNCHANGED <<qentry, query, qfilter, backend, search_results, context,
                   qerror>>
    /\ UNCHANGED <<chunkVars, ingestVars, mainVars, cliVars>>

\* openai_service.py:108-110 and the callers' handlers: the completion
\* request raises
CompleteFail ==
    /\ qpc = "complete"
    /\ qlog' = Append(qlog, [op |-> "complete", arg |-> query, ok |-> FALSE])
    /\ qerror' = "completion"
    /\ qpc' = "done"
    /\ UNCHANGED <<qentry, query, qfilter, backend, search_results, context,
                   qresult>>
    /\ UNCHANGED <<chunkVars, ingestVars, mainVars, cliVars>>

QueryNext ==
    \/ ProcessQueryCall
    \/ EmbedQueryOk
    \/ EmbedQueryFail
    \/ VectorSearchOk
    \/ VectorSearchFail
    \/ GetAnswerCall
    \/ CompleteOk
    \/ CompleteFail

----------------------------------------------------------------------------
(* The query command, query.py: main, process_query and interactive_mode  *)

\* str.lower on the letters of the input lines
LowerChar(c) ==
    CASE c = "E" -> "e"
      [] c = "Q" -> "q"
      [] c = "X" -> "x"
      [] OTHER -> c

Lower(s) == [i \in 1..Len(s) |-> LowerChar(s[i])]

\* str.strip: the whitespace at both ends is taken away
RECURSIVE Strip(_)
Strip(s) ==
    IF s = <<>> THEN s
    ELSE IF s[1] \in Whitespace THEN Strip(Tail(s))
    ELSE IF s[Len(s)] \in Whitespace THEN Strip(SubSeq(s, 1, Len(s) - 1))
    ELSE s

\* what the user may type: nothing, whitespace, the exit words in several
\* spellings, an exit word after a space, and a question
InputLines ==
    {<<>>,
     <<SP>>,
     <<"\t", SP>>,
     <<"e", "x", "i", "t">>,
     <<"E", "X", "i", "t">>,
     <<"q", "u", "i", "t">>,
     <<SP, "e", "x", "i", "t">>,
     <<"w", "h", "y", "?">>}

ExitWords == {<<"e", "x", "i", "t">>, <<"q", "u", "i", "t">>}

\* query.py:96-103: the arguments are parsed
CliInit ==
    /\ QueryIdle
    /\ qpc = "cli_start"
    /\ qmode \in {"oneshot", "interactive"}
    /\ cli_filter \in Filters
    /\ lines \in IF qmode = "oneshot" THEN {<<l>> : l \in InputLines} ELSE {<<>>}

\* query.py:105-113 and 42-48: --interactive starts the session; a query
\* argument that is not empty is handed with the --filter value to
\* QueryProcessor.process_query; without one main returns
CliMain ==
    /\ qpc = "cli_start"
    /\ IF qmode = "interactive"
       THEN /\ qpc' = "prompt"
            /\ UNCHANGED <<qentry, query, qfilter>>
       ELSE IF lines[1] # <<>>
            THEN /\ qentry' = "process_query"
                 /\ query' = lines[1]
                 /\ qfilter' = cli_filter
                 /\ qpc' = "embed"
            ELSE /\ qpc' = "cli_done"
                 /\ UNCHANGED <<qentry, query, qfilter>>
    /\ UNCHANGED <<backend, search_results, context, qresult, qerror, qlog>>
    /\ UNCHANGED <<cliVars, chunkVars, ingestVars, mainVars>>

\* an interactive_mode that hands the --filter value on
ReadLine_PassFilter ==
    /\ qpc = "prompt"
    /\ Len(lines) < MaxLines
    /\ \E l \in InputLines :
        /\ lines' = Append(lines, l)
        /\ IF Lower(l) \in ExitWords
           THEN /\ qpc' = "cli_done"
                /\ UNCHANGED <<qentry, query, qfilter, search_results, context,
                               qresult, qerror>>
           ELSE IF Strip(l) = <<>>
           THEN /\ qpc' = "prompt"
                /\ UNCHANGED <<qentry, query, qfilter, search_results, context,
                               qresult, qerror>>
           ELSE /\ qentry' = "process_query"
                /\ query' = l
                /\ qfilter' = cli_filter
                /\ search_results' = <<>>
                /\ context' = <<>>
                /\ qresult' = NoResult
                /\ qerror' = "none"
                /\ qpc' = "embed"
    /\ UNCHANGED <<backend, qlog, qmode, cli_filter>>
    /\ UNCHANGED <<chunkVars, ingestVars, mainVars>>

\* query.py:70-85: a line is read; an exit word in any case ends the
\* session, a line of whitespace is passed over, any other line is handed
\* to QueryProcessor.process_query without filter
ReadLine ==
    /\ qpc = "prompt"
    /\ Len(lines) < MaxLines
    /\ \E l \in InputLines :
        /\ lines' = Append(lines, l)
        /\ IF Lower(l) \in ExitWords
           THEN /\ qpc' = "cli_done"
                /\ UNCHANGED <<qentry, query, qfilter, search_results, context,
                               qresult, qerror>>
           ELSE IF Strip(l) = <<>>
           THEN /\ qpc' = "prompt"
                /\ UNCHANGED <<qentry, query, qfilter, search_results, context,
                               qresult, qerror>>
           ELSE /\ qentry' = "process_query"
                /\ query' = l
                /\ qfilter' = "None"
                /\ search_results' = <<>>
                /\ context' = <<>>
                /\ qresult' = NoResult
                /\ qerror' = "none"
                /\ qpc' = "embed"
    /\ UNCHANGED <<backend, qlog, qmode, cli_filter>>
    /\ UNCHANGED <<chunkVars, ingestVars, mainVars>>

\* query.py:90-92: Ctrl+C at the prompt ends the session
Interrupted ==
    /\ qpc = "prompt"
    /\ qpc' = "cli_done"
    /\ UNCHANGED <<qentry, query, qfilter, backend, search_results, context,
                   qresult, qerror, qlog>>
    /\ UNCHANGED <<cliVars, chunkVars, ingestVars, mainVars>>

\* the search request of the command answers with a short list
CliSearchOk ==
    /\ qmode # "none"
    /\ VectorSearchReturns(SeqsUpTo(Hits, CliMaxResults))

\* query.py:51-54, 88 and 93-94: the result is displayed or the error
\* printed; the session asks for the next line, the one-shot command ends
ResultShown ==
    /\ qpc = "done"
    /\ qmode # "none"
    /\ qpc' = IF qmode = "interactive" THEN "prompt" ELSE "cli_done"
    /\ UNCHANGED <<qentry, query, qfilter, backend, search_results, context,
                   qresult, qerror, qlog>>
    /\ UNCHANGED <<cliVars, chunkVars, ingestVars, mainVars>>

CliNext ==
    \/ CliMain
    \/ ReadLine
    \/ Interrupted
    \/ EmbedQueryOk
    \/ EmbedQueryFail
    \/ CliSearchOk
    \/ VectorSearchFail
    \/ CompleteOk
    \/ CompleteFail
    \/ ResultShown

----------------------------------------------------------------------------
(* The ingestion path: ingest.py, EmbeddingGenerator, VectorStore and      *)
(* AzureSearchService.index_documents. A step of the model is the code     *)
(* between two requests to a service or to the file system.                *)

\* embeddings.py:65
EMBED_BATCH_SIZE == 16

\* the value of a chunk's "embedding" key before it is set
NoEmbedding == <<>>

\* the vector the embedding service returns for text t
Emb(t) == <<"vec", t>>

\* embeddings.py:69, texts[i:i+batch_size]
EmbedBatch(texts, i) ==
    Slice(texts, i, Min(i + EMBED_BATCH_SIZE, Len(texts)))

\* a list that grows at the front
Extend_Front(all, new) == new \o all

\* embeddings.py:75, all_embeddings.extend(batch_embeddings)
Extend(all, new) == all \o new

\* embeddings.py:40
TextsOf(cs) == [i \in 1..Len(cs) |-> cs[i].text]

\* embeddings.py:46-47, every chunk gets the embedding at its position
WithEmbeddings(cs, embs) ==
    [i \in 1..Len(cs) |-> [cs[i] EXCEPT !.embedding = embs[i]]]

\* a chunk dictionary, text_processor.py:30-39 (the two timestamps are
\* carried along unread and left out)
Chunk(u, k, t, f) ==
    [id |-> u,
     chunk_id |-> k,
     text |-> t,
     source |-> f.name,
     path |-> f.path,
     document_type |-> f.type,
     embedding |-> NoEmbedding]

\* the file a directly called operation speaks of
SomeFile == [name |-> "f0.txt", path |-> "docs/f0.txt", type |-> "txt",
             text |-> <<>>, nchunks |-> 0, loadable |-> TRUE]

\* the position reached when generate_embeddings has returned:
\* ingest.py:66-74
AfterEmbed ==
    IF ientry = "generate_embeddings" THEN "returned"
    ELSE IF skip_upload THEN "list1" ELSE "container"

\* the position reached when VectorStore.ingest_documents has returned
AfterIndex ==
    IF ientry = "ingest_documents" THEN "returned" ELSE "file_ok"

\* ai_search.py:118
INDEX_BATCH_SIZE == 100

\* ai_search.py:120, documents[i:i+batch_size]
UploadBatch(docs, i) ==
    Slice(docs, i, Min(i + INDEX_BATCH_SIZE, Len(docs)))

\* the ways the backend may answer a batch: which records it rejects
UploadOutcomes == {"all written", "first rejected", "last rejected", "all rejected"}

\* the positions of the batch whose result has succeeded = False
Rejected(outcome, size) ==
    CASE outcome = "all written" -> {}
      [] outcome = "first rejected" -> {1}
      [] outcome = "last rejected" -> {size}
      [] outcome = "all rejected" -> 1..size

\* the index after the records recs were uploaded: a record replaces the
\* one with its key
Upsert(idx, recs) ==
    {r \in idx : \A x \in recs : x.id # r.id} \cup recs

IngestIdle ==
    /\ ientry = "none"
    /\ files = <<>>
    /\ skip_upload = FALSE
    /\ fidx = 0
    /\ results = <<>>
    /\ doc_chunks = <<>>
    /\ all_embeddings = <<>>
    /\ eoff = 0
    /\ uoff = 0
    /\ index = {}
    /\ index_exists = FALSE
    /\ blobs = {}
    /\ ilog = <<>>
    /\ reports = <<>>
    /\ ierror = "none"
    /\ uuid_next = 1

\* ingest.py's main is not running
MainOff ==
    /\ imode = "none"
    /\ path_exists = TRUE
    /\ exit_code = -1

IngestOff == IngestIdle /\ MainOff /\ ipc = "off"

\* generate_embeddings is about to be called with a list of n chunks over
\* m different texts
EmbedInit ==
    /\ ientry = "generate_embeddings"
    /\ ipc = "embed_call"
    /\ \E n \in 0..MaxTexts, m \in 1..MaxTextKinds :
          doc_chunks = [i \in 1..n |-> Chunk(i, i - 1, <<"t", i % m>>, SomeFile)]
    /\ files = <<>>
    /\ skip_upload = FALSE
    /\ fidx = 0
    /\ results = <<>>
    /\ all_embeddings = <<>>
    /\ eoff = 0
    /\ uoff = 0
    /\ index = {}
    /\ index_exists = FALSE
    /\ blobs = {}
    /\ ilog = <<>>
    /\ reports = <<>>
    /\ ierror = "none"
    /\ uuid_next = 1
    /\ MainOff

\* embeddings.py:40-47 and 65-68 up to the first request: with no text the
\* loops are empty and the chunks are returned
GenerateEmbeddingsCall ==
    /\ ipc = "embed_call"
    /\ all_embeddings' = <<>>
    /\ eoff' = 0
    /\ ipc' = IF Len(doc_chunks) > 0 THEN "embed" ELSE AfterEmbed
    /\ UNCHANGED <<ientry, files, skip_upload, fidx, results, doc_chunks, uoff,
                   index, index_exists, blobs, ilog, reports, ierror, uuid_next>>
    /\ UNCHANGED <<chunkVars, queryVars, mainVars, cliVars>>

\* embeddings.py:68-75 and 43-49: the request for the batch at eoff
\* answers with one vector per text; after the last batch every chunk gets
\* its embedding and the chunks are returned
EmbedBatchOk ==
    /\ ipc = "embed"
    /\ LET texts == TextsOf(doc_chunks)
           batch == EmbedBatch(texts, eoff)
           embs == Extend(all_embeddings, [i \in 1..Len(batch) |-> Emb(batch[i])])
       IN /\ ilog' = Append(ilog, [op |-> "embed", file |-> fidx, off |-> eoff,
                                   size |-> Len(batch), ok |-> TRUE])
          /\ all_embeddings' = embs
          /\ IF eoff + EMBED_BATCH_SIZE < Len(texts)
             THEN /\ eoff' = eoff + EMBED_BATCH_SIZE
                  /\ ipc' = "embed"
                  /\ doc_chunks' = doc_chunks
             ELSE /\ eoff' = eoff
                  /\ ipc' = AfterEmbed
                  /\ doc_chunks' = WithEmbeddings(doc_chunks, embs)
    /\ UNCHANGED <<ientry, files, skip_upload, fidx, results, uoff, index,
                   index_exists, blobs, reports, ierror, uuid_next>>
    /\ UNCHANGED <<chunkVars, queryVars, mainVars, cliVars>>

\* embeddings.py:50-52 and 68-73: what the caller of generate_embeddings
\* receives when the request for the batch at off raises: the exception of
\* the client, raised again as it came, to which neither _get_embeddings
\* nor generate_embeddings adds the offset
EmbeddingError(off) == "embedding request failed"

\* a batcher that goes on with the next batch when a request fails
EmbedBatchFail_Skip ==
    /\ ipc = "embed"
    /\ ilog' = Append(ilog, [op |-> "embed", file |-> fidx, off |-> eoff,
                             size |-> Len(EmbedBatch(TextsOf(doc_chunks), eoff)),
                             ok |-> FALSE])
    /\ IF eoff + EMBED_BATCH_SIZE < Len(doc_chunks)
       THEN /\ eoff' = eoff + EMBED_BATCH_SIZE
            /\ ipc' = "embed"
            /\ ierror' = ierror
       ELSE /\ eoff' = eoff
            /\ ipc' = "raised"
            /\ ierror' = "embedding request failed"
    /\ UNCHANGED <<ientry, files, skip_upload, fidx, results, doc_chunks,
                   all_embeddings, uoff, index, index_exists, blobs, reports,
                   uuid_next>>
    /\ UNCHANGED <<chunkVars, queryVars, mainVars, cliVars>>

\* embeddings.py:70 and 50-52: the request for the batch at eoff raises,
\* generate_embeddings logs and re-raises
EmbedBatchFail ==
    /\ ipc = "embed"
    /\ ilog' = Append(ilog, [op |-> "embed", file |-> fidx, off |-> eoff,
                             size |-> Len(EmbedBatch(TextsOf(doc_chunks), eoff)),
                             ok |-> FALSE])
    /\ ierror' = EmbeddingError(eoff)
    /\ ipc' = "raised"
    /\ UNCHANGED <<ientry, files, skip_upload, fidx, results, doc_chunks,
                   all_embeddings, eoff, uoff, index, index_exists, blobs,
                   reports, uuid_next>>
    /\ UNCHANGED <<chunkVars, queryVars, mainVars, cliVars>>

EmbedNext == GenerateEmbeddingsCall \/ EmbedBatchOk \/ EmbedBatchFail

\* vector_store.py:20 and 28 reached on its own with n records that
\* carry their embeddings
IndexInit ==
    /\ ientry = "ingest_documents"
    /\ ipc = "list1"
    /\ \E n \in 0..MaxRecords :
          doc_chunks = [i \in 1..n |->
             [Chunk(i, i - 1, <<"t", i>>, SomeFile) EXCEPT !.embedding = Emb(<<"t", i>>)]]
    /\ index_exists \in BOOLEAN
    /\ files = <<>>
    /\ skip_upload = FALSE
    /\ fidx = 0
    /\ results = <<>>
    /\ all_embeddings = <<>>
    /\ eoff = 0
    /\ uoff = 0
    /\ index = {}
    /\ blobs = {}
    /\ ilog = <<>>
    /\ reports = <<>>
    /\ ierror = "none"
    /\ uuid_next = 1
    /\ MainOff

\* the position after create_index_if_not_exists has returned: the second
\* call (ai_search.py:115) for the first (vector_store.py:28), the upload
\* loop for the second, which is over at once for an empty list
AfterEnsure(first) ==
    IF first THEN "list2"
    ELSE IF Len(doc_chunks) > 0 THEN "upload" ELSE AfterIndex

\* a create_index_if_not_exists that creates the index whatever the list says
ListIndexesOk_AlwaysCreate ==
    /\ ipc \in {"list1", "list2"}
    /\ ilog' = Append(ilog, [op |-> "list_indexes", file |-> fidx, off |-> 0,
                             size |-> 0, ok |-> TRUE])
    /\ ipc' = IF ipc = "list1" THEN "create1" ELSE "create2"
    /\ uoff' = 0
    /\ UNCHANGED <<ientry, files, skip_upload, fidx, results, doc_chunks,
                   all_embeddings, eoff, index, index_exists, blobs, reports,
                   ierror, uuid_next>>
    /\ UNCHANGED <<chunkVars, queryVars, mainVars, cliVars>>

\* ai_search.py:58-60: list_indexes answers; the index is in the list and
\* the call returns, or the index is about to be created
ListIndexesOk ==
    /\ ipc \in {"list1", "list2"}
    /\ ilog' = Append(ilog, [op |-> "list_indexes", file |-> fidx, off |-> 0,
                             size |-> 0, ok |-> TRUE])
    /\ ipc' = IF index_exists THEN AfterEnsure(ipc = "list1")
              ELSE IF ipc = "list1" THEN "create1" ELSE "create2"
    /\ uoff' = 0
    /\ UNCHANGED <<ientry, files, skip_upload, fidx, results, doc_chunks,
                   all_embeddings, eoff, index, index_exists, blobs, reports,
                   ierror, uuid_next>>
    /\ UNCHANGED <<chunkVars, queryVars, mainVars, cliVars>>

\* ai_search.py:58 raises: vector_store.py:33-35 or ai_search.py:125-127
ListIndexesFail ==
    /\ ipc \in {"list1", "list2"}
    /\ ilog' = Append(ilog, [op |-> "list_indexes", file |-> fidx, off |-> 0,
                             size |-> 0, ok |-> FALSE])
    /\ ierror' = "index request failed"
    /\ ipc' = "raised"
    /\ UNCHANGED <<ientry, files, skip_upload, fidx, results, doc_chunks,
                   all_embeddings, eoff, uoff, index, index_exists, blobs,
                   reports, uuid_next>>
    /\ UNCHANGED <<chunkVars, queryVars, mainVars, cliVars>>

\* ai_search.py:61-104: create_index answers
CreateIndexOk ==
    /\ ipc \in {"create1", "create2"}
    /\ ilog' = Append(ilog, [op |-> "create_index", file |-> fidx, off |-> 0,
                             size |-> 0, ok |-> TRUE])
    /\ index_exists' = TRUE
    /\ ipc' = AfterEnsure(ipc = "create1")
    /\ uoff' = 0
    /\ UNCHANGED <<ientry, files, skip_upload, fidx, results, doc_chunks,
                   all_embeddings, eoff, index, blobs, reports, ierror,
                   uuid_next>>
    /\ UNCHANGED <<chunkVars, queryVars, mainVars, cliVars>>

\* ai_search.py:103 raises
CreateIndexFail ==
    /\ ipc \in {"create1", "create2"}
    /\ ilog' = Append(ilog, [op |-> "create_index", file |-> fidx, off |-> 0,
                             size |-> 0, ok |-> FALSE])
    /\ ierror' = "index request failed"
    /\ ipc' = "raised"
    /\ UNCHANGED <<ientry, files, skip_upload, fidx, results, doc_chunks,
                   all_embeddings, eoff, uoff, index, index_exists, blobs,
                   reports, uuid_next>>
    /\ UNCHANGED <<chunkVars, queryVars, mainVars, cliVars>>

\* ai_search.py:119-123: upload_documents answers for the batch at uoff
\* with one result per record; the count of the succeeded ones is logged
\* and the loop goes on, or index_documents and ingest_documents return
UploadBatchOk ==
    /\ ipc = "upload"
    /\ \E outcome \in UploadOutcomes :
        LET batch == UploadBatch(doc_chunks, uoff)
            rejected == Rejected(outcome, Len(batch))
            written == {batch[k] : k \in (1..Len(batch)) \ rejected}
            success_count == Len(batch) - Cardinality(rejected)
        IN /\ index' = Upsert(index, written)
           /\ reports' = Append(reports, [file |-> fidx, off |-> uoff,
                                          success_count |-> success_count,
                                          size |-> Len(batch)])
           /\ ilog' = Append(ilog, [op |-> "upload", file |-> fidx, off |-> uoff,
                                    size |-> Len(batch), ok |-> TRUE])
    /\ IF uoff + INDEX_BATCH_SIZE < Len(doc_chunks)
       THEN /\ uoff' = uoff + INDEX_BATCH_SIZE
            /\ ipc' = "upload"
       ELSE /\ uoff' = uoff
            /\ ipc' = AfterIndex
    /\ UNCHANGED <<ientry, files, skip_upload, fidx, results, doc_chunks,
                   all_embeddings, eoff, index_exists, blobs, ierror, uuid_next>>
    /\ UNCHANGED <<chunkVars, queryVars, mainVars, cliVars>>

\* ai_search.py:121 raises: ai_search.py:125-127, vector_store.py:33-35
UploadBatchFail ==
    /\ ipc = "upload"
    /\ ilog' = Append(ilog, [op |-> "upload", file |-> fidx, off |-> uoff,
                             size |-> Len(UploadBatch(doc_chunks, uoff)),
                             ok |-> FALSE])
    /\ ierror' = "index request failed"
    /\ ipc' = "raised"
    /\ UNCHANGED <<ientry, files, skip_upload, fidx, results, doc_chunks,
                   all_embeddings, eoff, uoff, index, index_exists, blobs,
                   reports, uuid_next>>
    /\ UNCHANGED <<chunkVars, queryVars, mainVars, cliVars>>

IndexNext ==
    \/ ListIndexesOk
    \/ ListIndexesFail
    \/ CreateIndexOk
    \/ CreateIndexFail
    \/ UploadBatchOk
    \/ UploadBatchFail

----------------------------------------------------------------------------
(* ingest_directory and ingest_file, ingest.py:38-126 *)

\* the number of chunks of a document: none for an empty text, one, and
\* one more than an embedding batch holds
DocSizes == {0, 1, EMBED_BATCH_SIZE + 1}

\* the k-th file found in the directory; its extracted text is empty
\* exactly when it is cut into no chunk
File(k, n, l) ==
    [name |-> <<"f", k, ".txt">>,
     path |-> <<"docs/", "f", k, ".txt">>,
     type |-> "txt",
     text |-> IF n = 0 THEN <<>> ELSE <<"text of", k>>,
     nchunks |-> n,
     loadable |-> l]

FileKinds == {<<n, TRUE>> : n \in DocSizes} \cup {<<0, FALSE>>}

FileLists ==
    {[k \in 1..Len(ks) |-> File(k, ks[k][1], ks[k][2])] :
        ks \in SeqsUpTo(FileKinds, MaxFiles)}

\* text_processor.py:24-41 without the test of lines 54-55: an empty text
\* gives one chunk of empty text
MakeChunks_EmptyChunk(f, n, u) ==
    IF f.text = <<>> THEN <<Chunk(u, 0, <<>>, f)>>
    ELSE [i \in 1..n |-> Chunk(u + i - 1, i - 1, <<"chunk", i, "of", f.name>>, f)]

\* a process_document whose ids are made of the source and the position
MakeChunks_StableIds(f, n, u) ==
    IF f.text = <<>> THEN <<>>
    ELSE [i \in 1..n |->
            Chunk(<<f.name, i - 1>>, i - 1, <<"chunk", i, "of", f.name>>, f)]

\* text_processor.py:24-41 and 54-55: no chunk for an empty text, otherwise
\* n chunks numbered from 0, each with a fresh id
MakeChunks(f, n, u) ==
    IF f.text = <<>> THEN <<>>
    ELSE [i \in 1..n |-> Chunk(u + i - 1, i - 1, <<"chunk", i, "of", f.name>>, f)]

IngestDirInit ==
    /\ ientry = "ingest_directory"
    /\ ipc = "dir_call"
    /\ imode = "none"
    /\ exit_code = -1
    /\ path_exists \in BOOLEAN
    /\ files \in IF path_exists THEN FileLists ELSE {<<>>}
    /\ skip_upload \in BOOLEAN
    /\ index_exists \in BOOLEAN
    /\ fidx = 0
    /\ results = <<>>
    /\ doc_chunks = <<>>
    /\ all_embeddings = <<>>
    /\ eoff = 0
    /\ uoff = 0
    /\ index = {}
    /\ blobs = {}
    /\ ilog = <<>>
    /\ reports = <<>>
    /\ ierror = "none"
    /\ uuid_next = 1

\* the position after file number fidx is done with: ingest.py:114, 126
NextFile == IF fidx < Len(files) THEN "load" ELSE "dir_done"

\* ingest.py:94-116: without the directory, or with no file found in it,
\* the empty list is returned; otherwise ingest_file is called for the
\* first file
IngestDirectoryCall ==
    /\ ipc = "dir_call"
    /\ results' = <<>>
    /\ IF ~path_exists \/ files = <<>>
       THEN /\ ipc' = "dir_done"
            /\ fidx' = fidx
       ELSE /\ ipc' = "load"
            /\ fidx' = 1
    /\ UNCHANGED <<ientry, files, skip_upload, doc_chunks, all_embeddings, eoff,
                   uoff, index, index_exists, blobs, ilog, reports, ierror,
                   uuid_next>>
    /\ UNCHANGED <<chunkVars, queryVars, mainVars, cliVars>>

\* ingest.py:52-63: the document is loaded and chunked, generate_embeddings
\* is called and reaches its first request
LoadOk ==
    /\ ipc = "load"
    /\ files[fidx].loadable
    /\ ilog' = Append(ilog, [op |-> "load", file |-> fidx, off |-> 0,
                             size |-> 0, ok |-> TRUE])
    /\ doc_chunks' = MakeChunks(files[fidx], files[fidx].nchunks, uuid_next)
    /\ uuid_next' = uuid_next + Len(doc_chunks')
    /\ all_embeddings' = <<>>
    /\ eoff' = 0
    /\ ipc' = IF Len(doc_chunks') > 0 THEN "embed" ELSE AfterEmbed
    /\ UNCHANGED <<ientry, files, skip_upload, fidx, results, uoff, index,
                   index_exists, blobs, reports, ierror>>
    /\ UNCHANGED <<chunkVars, queryVars, mainVars, cliVars>>

\* document_loader.py:30-43 or an extractor raises
LoadFail ==
    /\ ipc = "load"
    /\ ~files[fidx].loadable
    /\ ilog' = Append(ilog, [op |-> "load", file |-> fidx, off |-> 0,
                             size |-> 0, ok |-> FALSE])
    /\ ierror' = "document not loaded"
    /\ ipc' = "raised"
    /\ UNCHANGED <<ientry, files, skip_upload, fidx, results, doc_chunks,
                   all_embeddings, eoff, uoff, index, index_exists, blobs,
                   reports, uuid_next>>
    /\ UNCHANGED <<chunkVars, queryVars, mainVars, cliVars>>

\* blob_storage.py:25-31: the container is created or exists already
ContainerOk ==
    /\ ipc = "container"
    /\ ilog' = Append(ilog, [op |-> "create_container", file |-> fidx,
                             off |-> 0, size |-> 0, ok |-> TRUE])
    /\ ipc' = "blob"
    /\ UNCHANGED <<ientry, files, skip_upload, fidx, results, doc_chunks,
                   all_embeddings, eoff, uoff, index, index_exists, blobs,
                   reports, ierror, uuid_next>>
    /\ UNCHANGED <<chunkVars, queryVars, mainVars, cliVars>>

\* blob_storage.py:28 raises something other than ResourceExistsError
ContainerFail ==
    /\ ipc = "container"
    /\ ilog' = Append(ilog, [op |-> "create_container", file |-> fidx,
                             off |-> 0, size |-> 0, ok |-> FALSE])
    /\ ierror' = "storage request failed"
    /\ ipc' = "raised"
    /\ UNCHANGED <<ientry, files, skip_upload, fidx, results, doc_chunks,
                   all_embeddings, eoff, uoff, index, index_exists, blobs,
                   reports, uuid_next>>
    /\ UNCHANGED <<chunkVars, queryVars, mainVars, cliVars>>

\* blob_storage.py:43-68 and ingest.py:72-74: the file is uploaded and
\* VectorStore.ingest_documents is called
BlobUploadOk ==
    /\ ipc = "blob"
    /\ ilog' = Append(ilog, [op |-> "upload_blob", file |-> fidx, off |-> 0,
                             size |-> 0, ok |-> TRUE])
    /\ blobs' = blobs \cup {files[fidx].name}
    /\ ipc' = "list1"
    /\ UNCHANGED <<ientry, files, skip_upload, fidx, results, doc_chunks,
                   all_embeddings, eoff, uoff, index, index_exists, reports,
                   ierror, uuid_next>>
    /\ UNCHANGED <<chunkVars, queryVars, mainVars, cliVars>>

\* an ingest_file that goes on to the index after a failed upload
BlobUploadFail_Continue ==
    /\ ipc = "blob"
    /\ ilog' = Append(ilog, [op |-> "upload_blob", file |-> fidx, off |-> 0,
                             size |-> 0, ok |-> FALSE])
    /\ ipc' = "list1"
    /\ UNCHANGED <<ientry, files, skip_upload, fidx, results, doc_chunks,
                   all_embeddings, eoff, uoff, index, index_exists, blobs,
                   reports, ierror, uuid_next>>
    /\ UNCHANGED <<chunkVars, queryVars, mainVars, cliVars>>

\* blob_storage.py:70-72: the upload raises
BlobUploadFail ==
    /\ ipc = "blob"
    /\ ilog' = Append(ilog, [op |-> "upload_blob", file |-> fidx, off |-> 0,
                             size |-> 0, ok |-> FALSE])
    /\ ierror' = "storage request failed"
    /\ ipc' = "raised"
    /\ UNCHANGED <<ientry, files, skip_upload, fidx, results, doc_chunks,
                   all_embeddings, eoff, uoff, index, index_exists, blobs,
                   reports, uuid_next>>
    /\ UNCHANGED <<chunkVars, queryVars, mainVars, cliVars>>

\* ingest.py:75-81 and 116-117: ingest_file returns its dictionary, which
\* is appended to the results
FileSucceeded ==
    /\ ipc = "file_ok"
    /\ ientry = "ingest_directory"
    /\ results' = Append(results, [file |-> files[fidx].name,
                                   chunks |-> Len(doc_chunks),
                                   status |-> "success"])
    /\ ipc' = NextFile
    /\ fidx' = IF fidx < Len(files) THEN fidx + 1 ELSE fidx
    /\ UNCHANGED <<ientry, files, skip_upload, doc_chunks, all_embeddings, eoff,
                   uoff, index, index_exists, blobs, ilog, reports, ierror,
                   uuid_next>>
    /\ UNCHANGED <<chunkVars, queryVars, mainVars, cliVars>>

\* a loop that lets the exception of ingest_file through
FileFailed_Abort ==
    /\ ipc = "raised"
    /\ ientry = "ingest_directory"
    /\ ipc' = "dir_done"
    /\ UNCHANGED <<ientry, files, skip_upload, fidx, results, doc_chunks,
                   all_embeddings, eoff, uoff, index, index_exists, blobs, ilog,
                   reports, ierror, uuid_next>>
    /\ UNCHANGED <<chunkVars, queryVars, mainVars, cliVars>>

\* ingest.py:118-124: the exception of ingest_file is caught and recorded
FileFailed ==
    /\ ipc = "raised"
    /\ ientry = "ingest_directory"
    /\ results' = Append(results, [file |-> files[fidx].path,
                                   status |-> "error",
                                   error |-> ierror])
    /\ ierror' = "none"
    /\ ipc' = NextFile
    /\ fidx' = IF fidx < Len(files) THEN fidx + 1 ELSE fidx
    /\ UNCHANGED <<ientry, files, skip_upload, doc_chunks, all_embeddings, eoff,
                   uoff, index, index_exists, blobs, ilog, reports, uuid_next>>
    /\ UNCHANGED <<chunkVars, queryVars, mainVars, cliVars>>

IngestNext ==
    \/ IngestDirectoryCall
    \/ LoadOk
    \/ LoadFail
    \/ EmbedBatchOk
    \/ EmbedBatchFail
    \/ ContainerOk
    \/ ContainerFail
    \/ BlobUploadOk
    \/ BlobUploadFail
    \/ ListIndexesOk
    \/ ListIndexesFail
    \/ CreateIndexOk
    \/ CreateIndexFail
    \/ UploadBatchOk
    \/ UploadBatchFail
    \/ FileSucceeded
    \/ FileFailed

----------------------------------------------------------------------------
(* ingest_file called for one document, and once more for the same        *)
(* unchanged document, against the same index: ingest.py:38-81            *)

ReingestInit ==
    /\ ientry = "ingest_file"
    /\ ipc = "load"
    /\ imode = "none"
    /\ path_exists = TRUE
    /\ exit_code = -1
    /\ \E kind \in FileKinds :
          files = <<File(1, kind[1], kind[2]), File(1, kind[1], kind[2])>>
    /\ skip_upload \in BOOLEAN
    /\ index_exists \in BOOLEAN
    /\ fidx = 1
    /\ results = <<>>
    /\ doc_chunks = <<>>
    /\ all_embeddings = <<>>
    /\ eoff = 0
    /\ uoff = 0
    /\ index = {}
    /\ blobs = {}
    /\ ilog = <<>>
    /\ reports = <<>>
    /\ ierror = "none"
    /\ uuid_next = 1

\* ingest.py:77-81: ingest_file returns its dictionary; after the first
\* call the second one begins
IngestFileReturned ==
    /\ ipc = "file_ok"
    /\ ientry = "ingest_file"
    /\ imode = "none"
    /\ results' = Append(results, [file |-> files[fidx].name,
                                   chunks |-> Len(doc_chunks),
                                   status |-> "success"])
    /\ IF fidx < Len(files)
       THEN /\ fidx' = fidx + 1
            /\ ipc' = "load"
       ELSE /\ fidx' = fidx
            /\ ipc' = "returned"
    /\ UNCHANGED <<ientry, files, skip_upload, doc_chunks, all_embeddings, eoff,
                   uoff, index, index_exists, blobs, ilog, reports, ierror,
                   uuid_next>>
    /\ UNCHANGED <<chunkVars, queryVars, mainVars, cliVars>>

ReingestNext ==
    \/ LoadOk
    \/ LoadFail
    \/ EmbedBatchOk
    \/ EmbedBatchFail
    \/ ContainerOk
    \/ ContainerFail
    \/ BlobUploadOk
    \/ BlobUploadFail
    \/ ListIndexesOk
    \/ ListIndexesFail
    \/ CreateIndexOk
    \/ CreateIndexFail
    \/ UploadBatchOk
    \/ UploadBatchFail
    \/ IngestFileReturned

----------------------------------------------------------------------------
(* The ingestion command, main of ingest.py:128-163 *)

MainInit ==
    /\ ientry = "main"
    /\ ipc = "main_call"
    /\ imode \in {"file", "dir"}
    /\ path_exists \in BOOLEAN
    /\ exit_code = -1
    /\ files \in IF imode = "file" THEN {fs \in FileLists : Len(fs) = 1}
                 ELSE IF path_exists THEN FileLists ELSE {<<>>}
    /\ skip_upload \in BOOLEAN
    /\ index_exists \in BOOLEAN
    /\ fidx = 0
    /\ results = <<>>
    /\ doc_chunks = <<>>
    /\ all_embeddings = <<>>
    /\ eoff = 0
    /\ uoff = 0
    /\ index = {}
    /\ blobs = {}
    /\ ilog = <<>>
    /\ reports = <<>>
    /\ ierror = "none"
    /\ uuid_next = 1

\* ingest.py:139-150 and helpers.py:82-85: with --file, ingest_file is
\* called when the file exists and main returns 0 when it does not; with
\* --dir, ingest_directory is called
MainCall ==
    /\ ipc = "main_call"
    /\ IF imode = "file"
       THEN IF path_exists
            THEN /\ ientry' = "ingest_file"
                 /\ fidx' = 1
                 /\ ipc' = "load"
                 /\ exit_code' = exit_code
            ELSE /\ ientry' = ientry
                 /\ fidx' = fidx
                 /\ ipc' = "exited"
                 /\ exit_code' = 0
       ELSE /\ ientry' = "ingest_directory"
            /\ fidx' = fidx
            /\ ipc' = "dir_call"
            /\ exit_code' = exit_code
    /\ UNCHANGED <<files, skip_upload, results, doc_chunks, all_embeddings, eoff,
                   uoff, index, index_exists, blobs, ilog, reports, ierror,
                   uuid_next, imode, path_exists>>
    /\ UNCHANGED <<chunkVars, queryVars, cliVars>>

\* ingest.py:75-81, 143-145 and 163: ingest_file returns its dictionary to
\* main, which returns 0
MainFileReturned ==
    /\ ipc = "file_ok"
    /\ ientry = "ingest_file"
    /\ results' = <<[file |-> files[fidx].name,
                     chunks |-> Len(doc_chunks),
                     status |-> "success"]>>
    /\ exit_code' = 0
    /\ ipc' = "exited"
    /\ UNCHANGED <<ientry, files, skip_upload, fidx, doc_chunks, all_embeddings,
                   eoff, uoff, index, index_exists, blobs, ilog, reports, ierror,
                   uuid_next, imode, path_exists>>
    /\ UNCHANGED <<chunkVars, queryVars, cliVars>>

\* ingest.py:159-161: the exception of ingest_file reaches main, which
\* returns 1
MainRaised ==
    /\ ipc = "raised"
    /\ ientry = "ingest_file"
    /\ exit_code' = 1
    /\ ipc' = "exited"
    /\ UNCHANGED <<ientry, files, skip_upload, fidx, results, doc_chunks,
                   all_embeddings, eoff, uoff, index, index_exists, blobs, ilog,
                   reports, ierror, uuid_next, imode, path_exists>>
    /\ UNCHANGED <<chunkVars, queryVars, cliVars>>

\* ingest.py:150-157 and 163: ingest_directory returns its results, the
\* summary is printed and main returns 0
MainDirReturned ==
    /\ ipc = "dir_done"
    /\ imode = "dir"
    /\ exit_code' = 0
    /\ ipc' = "exited"
    /\ UNCHANGED <<ientry, files, skip_upload, fidx, results, doc_chunks,
                   all_embeddings, eoff, uoff, index, index_exists, blobs, ilog,
                   reports, ierror, uuid_next, imode, path_exists>>
    /\ UNCHANGED <<chunkVars, queryVars, cliVars>>

MainNext ==
    \/ MainCall
    \/ IngestDirectoryCall
    \/ LoadOk
    \/ LoadFail
    \/ EmbedBatchOk
    \/ EmbedBatchFail
    \/ ContainerOk
    \/ ContainerFail
    \/ BlobUploadOk
    \/ BlobUploadFail
    \/ ListIndexesOk
    \/ ListIndexesFail
    \/ CreateIndexOk
    \/ CreateIndexFail
    \/ UploadBatchOk
    \/ UploadBatchFail
    \/ FileSucceeded
    \/ FileFailed
    \/ MainFileReturned
    \/ MainRaised
    \/ MainDirReturned

----------------------------------------------------------------------------
(* Specifications *)

InitChunk == ChunkInit /\ QueryOff /\ IngestOff

SpecChunk == InitChunk /\ [][ChunkNext]_vars

\* the loop of _chunk_text is run as long as its condition holds
InitChunkLive == ChunkInitLive /\ QueryOff /\ IngestOff

SpecChunkLive == InitChunkLive /\ [][ChunkNext]_vars /\ WF_vars(ChunkNext)

InitQuery == QueryInit /\ ChunkIdle /\ IngestOff

SpecQuery == InitQuery /\ [][QueryNext]_vars

InitEmbed == EmbedInit /\ ChunkIdle /\ QueryOff

SpecEmbed == InitEmbed /\ [][EmbedNext]_vars

InitIndex == IndexInit /\ ChunkIdle /\ QueryOff

SpecIndex == InitIndex /\ [][IndexNext]_vars

InitIngest == IngestDirInit /\ ChunkIdle /\ QueryOff

SpecIngest == InitIngest /\ [][IngestNext]_vars

InitCli == CliInit /\ ChunkIdle /\ IngestOff

SpecCli == InitCli /\ [][CliNext]_vars

InitReingest == ReingestInit /\ ChunkIdle /\ QueryOff

SpecReingest == InitReingest /\ [][ReingestNext]_vars

InitMain == MainInit /\ ChunkIdle /\ QueryOff

SpecMain == InitMain /\ [][MainNext]_vars

----------------------------------------------------------------------------
(* Claims about the chunker *)

\* the first chunk followed by every later chunk without its first ov
\* characters (Python's c[ov:])
RECURSIVE DropOverlaps(_, _, _)
DropOverlaps(cs, ov, i) ==
    IF i > Len(cs) THEN <<>>
    ELSE Slice(cs[i], Min(ov, Len(cs[i])), Len(cs[i])) \o DropOverlaps(cs, ov, i + 1)

Reassemble(cs, ov) ==
    IF cs = <<>> THEN <<>> ELSE cs[1] \o DropOverlaps(cs, ov, 2)

\* chunk i ends with the ov characters chunk i+1 starts with
SharesOverlap(cs, ov, i) ==
    /\ Len(cs[i]) >= ov
    /\ Len(cs[i + 1]) >= ov
    /\ Slice(cs[i], Len(cs[i]) - ov, Len(cs[i])) = Slice(cs[i + 1], 0, ov)

\* C2: for a non-empty text and chunk_size > overlap > 0, the first chunk
\* followed by each later chunk without its first `overlap` characters is
\* the normalized text, and consecutive chunks share `overlap` characters.
C2_Reconstruction ==
    (cpc = "done" /\ text # <<>> /\ overlap > 0) =>
        /\ Reassemble(chunks, overlap) = ntext
        /\ \A i \in 1..(Len(chunks) - 1) : SharesOverlap(chunks, overlap, i)

\* a finished run with three or more chunks, an overlap, and a text that
\* normalisation changed
C2_Witness ==
    /\ cpc = "done"
    /\ overlap > 0
    /\ Len(chunks) >= 3
    /\ ntext # text

\* C3: every emitted chunk is non-empty and no longer than chunk_size plus
\* the sentence lookahead.
C3_ChunkLength ==
    \A i \in 1..Len(chunks) :
        /\ chunks[i] # <<>>
        /\ Len(chunks[i]) <= chunk_size + SentenceWindow

\* a finished run one of whose chunks reaches the longest allowed length
C3_Witness ==
    /\ cpc = "done"
    /\ \E i \in 1..Len(chunks) : Len(chunks[i]) = chunk_size + SentenceWindow

----------------------------------------------------------------------------
(* Claims about the query path *)

CallsOf(op) == Cardinality({i \in 1..Len(qlog) : qlog[i].op = op})

\* C1: no result returned by the retriever has a score below
\* SIMILARITY_THRESHOLD, whatever list the backend returned.
C1_ThresholdRespected ==
    /\ \A i \in 1..Len(search_results) :
          search_results[i].score >= SIMILARITY_THRESHOLD
    /\ qentry = "process_query" =>
          \A i \in 1..Len(context) : context[i].score >= SIMILARITY_THRESHOLD

\* a filtered search whose backend list holds a result below the threshold
\* and one that is returned
C1_Witness ==
    /\ qentry = "process_query"
    /\ qfilter # "None"
    /\ search_results # <<>>
    /\ \E i \in 1..Len(backend) : backend[i].search_score < SIMILARITY_THRESHOLD

AtThreshold(r) == r.search_score >= SIMILARITY_THRESHOLD

NonIncreasing(scores) ==
    \A i \in 1..(Len(scores) - 1) : scores[i] >= scores[i + 1]

\* C6: the retriever's output is the subsequence of the backend's list with
\* scores at or above the threshold, in the backend's order, every field
\* copied; so it is in non-increasing score order when the backend's list is.
C6_ExactSubsequence ==
    LET kept == SelectSeq(backend, AtThreshold) IN
    /\ Len(search_results) = Len(kept)
    /\ \A i \in 1..Len(kept) :
          /\ search_results[i].id = kept[i].id
          /\ search_results[i].text = kept[i].text
          /\ search_results[i].source = kept[i].source
          /\ search_results[i].path = kept[i].path
          /\ search_results[i].document_type = kept[i].document_type
          /\ search_results[i].score = kept[i].search_score
    /\ NonIncreasing([i \in 1..Len(backend) |-> backend[i].search_score]) =>
          NonIncreasing([i \in 1..Len(search_results) |-> search_results[i].score])

\* a ranked backend list with a result above, one at and one below the
\* threshold: the first two are returned
C6_Witness ==
    /\ Len(backend) = 3
    /\ backend[1].search_score > SIMILARITY_THRESHOLD
    /\ backend[2].search_score = SIMILARITY_THRESHOLD
    /\ backend[3].search_score < SIMILARITY_THRESHOLD
    /\ backend[1].source # backend[2].source
    /\ Len(search_results) = 2

\* the composer returned an answer for the context
Composed == qpc = "done" /\ qerror = "none" /\ CallsOf("complete") = 1

\* the first position of source name n in ctx
FirstIndex(ctx, n) ==
    SetMin({i \in 1..Len(ctx) : ctx[i].source = n})

\* C5: for a non-empty context the sources list holds every source name of
\* the context exactly once, in order of first occurrence, each with the
\* path of the first context item of that name.
C5_SourcesDeduplicated ==
    (Composed /\ context # <<>>) =>
        LET srcs == qresult.sources IN
        /\ \A i \in 1..Len(context) :
              Cardinality({j \in 1..Len(srcs) : srcs[j].source = context[i].source}) = 1
        /\ \A j \in 1..Len(srcs) :
              /\ \E i \in 1..Len(context) : context[i].source = srcs[j].source
              /\ srcs[j].path = context[FirstIndex(context, srcs[j].source)].path
        /\ \A j, k \in 1..Len(srcs) :
              j < k => FirstIndex(context, srcs[j].source)
                         < FirstIndex(context, srcs[k].source)

\* an answer for a context whose first and third items come from the same
\* source under different paths, with another source between them
C5_Witness ==
    /\ Composed
    /\ Len(context) = 3
    /\ context[1].source = context[3].source
    /\ context[1].path # context[3].path
    /\ context[2].source # context[1].source
    /\ Len(qresult.sources) = 2

----------------------------------------------------------------------------
(* Claims about the ingestion path *)

\* the positions of the log that hold a request of kind op
RequestsOf(op) == {k \in 1..Len(ilog) : ilog[k].op = op}

\* C7: given a service that returns one vector per text in order, the
\* batcher returns a list as long as its input whose i-th element is the
\* embedding of the i-th text, for every list length.
C7_EmbeddingsAligned ==
    (ientry = "generate_embeddings" /\ ipc = "returned") =>
        /\ Len(all_embeddings) = Len(doc_chunks)
        /\ \A i \in 1..Len(doc_chunks) :
              /\ all_embeddings[i] = Emb(doc_chunks[i].text)
              /\ doc_chunks[i].embedding = Emb(doc_chunks[i].text)

\* a returned call for a list of more than two batches of different texts
C7_Witness ==
    /\ ientry = "generate_embeddings"
    /\ ipc = "returned"
    /\ Len(doc_chunks) > 2 * EMBED_BATCH_SIZE
    /\ doc_chunks[1].text # doc_chunks[EMBED_BATCH_SIZE + 1].text
    /\ Cardinality(RequestsOf("embed")) = 3

\* C8: when the request for a batch fails the call fails: the error
\* reaches the caller, no chunk has an embedding, the batch is not
\* requested again and no later batch is requested.
C8_BatchFailureFailsCall ==
    /\ \A k \in RequestsOf("embed") :
          ~ilog[k].ok =>
             /\ k = Len(ilog)
             /\ ipc = "raised"
             /\ ierror # "none"
             /\ \A i \in 1..Len(doc_chunks) : doc_chunks[i].embedding = NoEmbedding
    /\ \A j, k \in RequestsOf("embed") : j < k => ilog[j].off < ilog[k].off

\* the request of the second of three batches failed
C8_Witness ==
    /\ ientry = "generate_embeddings"
    /\ ipc = "raised"
    /\ Len(ilog) = 2
    /\ ilog[1].ok
    /\ ~ilog[2].ok
    /\ eoff + EMBED_BATCH_SIZE < Len(doc_chunks)

\* C9: every file of the directory is attempted, one after the other,
\* whatever happened to the earlier ones, and the results list has one
\* entry per file in processing order, with status success or error, the
\* error entry naming the file and the reason.
C9_EveryFileRecorded ==
    /\ Len(results) <= Len(files)
    /\ \A i \in 1..Len(results) :
          /\ results[i].status \in {"success", "error"}
          /\ results[i].status = "success" => results[i].file = files[i].name
          /\ results[i].status = "error" =>
                /\ results[i].file = files[i].path
                /\ results[i].error # "none"
          /\ \E k \in RequestsOf("load") : ilog[k].file = i
    /\ ipc = "dir_done" => Len(results) = Len(files)
    /\ \A j, k \in 1..Len(ilog) : j < k => ilog[j].file <= ilog[k].file

\* a finished directory of which the first file failed and the second was
\* ingested
C9_Witness ==
    /\ ientry = "ingest_directory"
    /\ ipc = "dir_done"
    /\ Len(files) >= 2
    /\ results[1].status = "error"
    /\ results[2].status = "success"

\* the k-th upload request of the call
UploadRequest(k) ==
    LET ups == RequestsOf("upload") IN
    ilog[CHOOSE j \in ups : Cardinality({x \in ups : x < j}) = k - 1]

\* C10: records are sent in contiguous batches of at most 100, a batch of
\* which some records were not written is reported to the caller, and the
\* records of earlier written batches stay in the index.
C10_PartialFailureReported ==
    /\ \A k \in 1..Cardinality(RequestsOf("upload")) :
          /\ UploadRequest(k).off = (k - 1) * INDEX_BATCH_SIZE
          /\ UploadRequest(k).size <= INDEX_BATCH_SIZE
          /\ UploadRequest(k).size =
                Min(INDEX_BATCH_SIZE, Len(doc_chunks) - UploadRequest(k).off)
    /\ \A k \in 1..Len(reports) :
          reports[k].success_count = reports[k].size =>
             \A i \in 1..reports[k].size : doc_chunks[reports[k].off + i] \in index
    /\ (ientry = "ingest_documents" /\ ipc = "returned") =>
          \A k \in 1..Len(reports) : reports[k].success_count = reports[k].size

----------------------------------------------------------------------------
(* Claims about the ingestion command *)

\* a document of the run was not ingested
SomeDocumentFailed ==
    \/ ~path_exists
    \/ imode = "file" /\ ierror # "none"
    \/ imode = "dir" /\ \E i \in 1..Len(results) : results[i].status = "error"

\* C11: the exit code of the ingestion command is zero only when every
\* document of the run was ingested, and non-zero when a document of the
\* directory failed, when the single file could not be ingested, and when
\* the file or directory does not exist.
C11_ExitCodeTellsFailure ==
    ipc = "exited" => (exit_code # 0 <=> SomeDocumentFailed)

\* the requests made while file k was ingested
RequestsFor(k) == {i \in 1..Len(ilog) : ilog[i].file = k}

\* ingest_file has ended for file k
FileEnded(k) ==
    IF ientry = "ingest_directory" THEN k <= Len(results)
    ELSE k = 1 /\ ipc = "exited" /\ path_exists

\* what ingest_file reported for file k
ResultOf(k) ==
    IF ientry = "ingest_directory" THEN results[k]
    ELSE IF results # <<>> THEN results[1]
    ELSE [file |-> files[k].name, status |-> "error", error |-> ierror]

\* C12: a document whose extracted text is empty is ingested without an
\* embedding request and without a record-upload request, and when its
\* storage and index requests succeed ingest_file returns chunks = 0 with
\* status success.
C12_EmptyTextIsSuccess ==
    \A k \in 1..Len(files) :
        files[k].loadable /\ files[k].text = <<>> =>
            /\ \A i \in RequestsFor(k) : ilog[i].op \notin {"embed", "upload"}
            /\ FileEnded(k) /\ (\A i \in RequestsFor(k) : ilog[i].ok) =>
                  ResultOf(k) = [file |-> files[k].name, chunks |-> 0,
                                 status |-> "success"]

\* an empty document was ingested to the end, index requests included
C12_Witness ==
    \E k \in 1..Len(files) :
        /\ files[k].loadable /\ files[k].text = <<>>
        /\ FileEnded(k)
        /\ \E i \in RequestsFor(k) : ilog[i].op = "list_indexes"
        /\ \A i \in RequestsFor(k) : ilog[i].ok

----------------------------------------------------------------------------
(* Claims about one query *)

\* the last request of the query failed
LastRequestFailed == qlog # <<>> /\ ~qlog[Len(qlog)].ok

\* the search request succeeded and nothing passed filter and threshold
SearchCameBackEmpty ==
    /\ Len(qlog) >= 2
    /\ qlog[2].op = "search" /\ qlog[2].ok
    /\ search_results = <<>>

\* C13: when process_query has ended, a search that left no result made it
\* return the fallback answer with no sources, without a completion
\* request; a failed embedding or search request made it raise and return
\* nothing; so it raised exactly when a request failed.
C13_EmptyIsNotFailure ==
    qentry = "process_query" /\ qpc = "done" =>
        /\ SearchCameBackEmpty =>
              /\ qerror = "none"
              /\ qresult = [answer |-> FALLBACK_ANSWER, sources |-> <<>>]
              /\ CallsOf("complete") = 0
        /\ LastRequestFailed <=> qerror # "none"
        /\ qerror # "none" <=> qresult = NoResult

\* a search whose hits were all below the threshold ended with the fallback
C13_Witness ==
    /\ qentry = "process_query" /\ qpc = "done"
    /\ SearchCameBackEmpty
    /\ backend # <<>>
    /\ qfilter # "None"

\* the requests of one query, in the order of the code
QueryOps == <<"embed", "search", "complete">>

\* C14: during one process_query the requests are issued in the order
\* embed, search, complete, each at most once, the embedding request
\* carrying the query alone; a request that fails is the last one of the
\* query and its failure reaches the caller.
C14_OrderedOnceNoRetry ==
    qentry = "process_query" =>
        /\ Len(qlog) <= Len(QueryOps)
        /\ \A i \in 1..Len(qlog) : qlog[i].op = QueryOps[i]
        /\ \A i \in 1..Len(qlog) : qlog[i].op = "embed" => qlog[i].arg = <<query>>
        /\ \A i \in 1..(Len(qlog) - 1) : qlog[i].ok
        /\ LastRequestFailed => qpc = "done" /\ qerror # "none"

\* all three requests were issued and the last one failed
C14_Witness ==
    /\ qentry = "process_query"
    /\ Len(qlog) = Len(QueryOps)
    /\ LastRequestFailed

----------------------------------------------------------------------------
(* Claims about the index *)

\* this step issues a create-index request
IssuesCreateIndex ==
    /\ Len(ilog') = Len(ilog) + 1
    /\ ilog'[Len(ilog')].op = "create_index"

\* the create-index requests that succeeded
IndexCreations == {i \in 1..Len(ilog) : ilog[i].op = "create_index" /\ ilog[i].ok}

\* C15: a create-index request is issued only while the index is absent, an
\* index that is present stays as it is and no call on it reaches the
\* creation, and over a whole run of ingestions the index is created at
\* most once.
C15_EnsureIndexIdempotent ==
    /\ [][/\ IssuesCreateIndex => ~index_exists
          /\ index_exists => index_exists'
          /\ index_exists => ipc' \notin {"create1", "create2"}]_vars
    /\ [](Cardinality(IndexCreations) <= 1)

\* two documents were ingested, with four calls of ensure_index and one
\* creation
C15_Witness ==
    /\ ientry = "ingest_directory"
    /\ Len(results) = 2
    /\ Cardinality(RequestsOf("list_indexes")) = 4
    /\ Cardinality(IndexCreations) = 1

----------------------------------------------------------------------------
(* Claims about a failed embedding batch *)

\* the offsets of the batches of the call
BatchOffsets ==
    {o \in 0..(Len(doc_chunks) - 1) : o % EMBED_BATCH_SIZE = 0}

\* C16: when the embedding request of a batch fails, what the caller of
\* generate_embeddings receives names that batch: the failure of no other
\* batch of the call would have given the same.
C16_FailureNamesBatch ==
    ientry = "generate_embeddings" /\ ipc = "raised" =>
        \A o \in BatchOffsets \ {eoff} : EmbeddingError(o) # ierror

----------------------------------------------------------------------------
(* Claims about the boundaries of the chunks *)

\* the step is an iteration of the loop that emits a chunk which is not
\* the last
NonFinalIteration ==
    /\ cpc = "loop"
    /\ start + chunk_size < Len(ntext)
    /\ Len(chunks') = Len(chunks) + 1

\* the patterns of _find_sentence_end that match in the window after `end`
TerminatorsInWindow(end) ==
    {n \in 1..Len(SentencePatterns) :
        MatchStarts(ntext, end, Min(end + SentenceWindow, Len(ntext)),
                    SentencePatterns[n]) # {}}

\* C17: a chunk that is not the last and has no sentence terminator in its
\* window ends at the word boundary: one past the first space of the word
\* window, or at `end` without one, and the cursor restarts `overlap`
\* before that boundary.
C17_WordBoundaryFallback ==
    [][NonFinalIteration /\ TerminatorsInWindow(start + chunk_size) = {} =>
          LET word_end == FindWordEnd(ntext, start + chunk_size) IN
          /\ chunks' = Append(chunks, Slice(ntext, start, word_end))
          /\ start' = word_end - overlap]_vars

\* the end of the first match, in the window after `end`, of pattern n
FirstEndOf(n, end) ==
    SetMin(MatchStarts(ntext, end, Min(end + SentenceWindow, Len(ntext)),
                       SentencePatterns[n])) + Len(SentencePatterns[n])

\* s ends with pat
EndsWith(s, pat) ==
    /\ Len(s) >= Len(pat)
    /\ SubSeq(s, Len(s) - Len(pat) + 1, Len(s)) = pat

C19_LoopTerminates ==
    /\ [][NonFinalIteration =>
             /\ start' >= start + chunk_size - overlap
             /\ start' > start]_vars
    /\ [](\A i \in 1..Len(chunks) : chunks[i] # <<>>)
    /\ <>(cpc = "done")

\* a text without terminator and without space was cut with the largest
\* overlap, the cursor moving by one each time
C19_Witness ==
    /\ ntext = <<"a", "a", "a", "a", "a">>
    /\ chunk_size = 3
    /\ overlap = 2
    /\ Len(chunks) = 3
    /\ cpc = "done"

----------------------------------------------------------------------------
(* Claims about the normalisation *)

\* s has a run of three or more newlines
HasLongNewlineRun(s) == \E i \in 0..(Len(s) - 1) : RunLen(s, i, {NL}) >= 3

\* s has a blank line
HasBlankLine(s) == \E i \in 0..(Len(s) - 1) : MatchAt(s, i, <<NL, NL>>, Len(s))

\* C20: in the normalized text a run of three or more newlines of the text
\* has become two newlines that are still there as a blank line, and a text
\* without such a run has each run of two or more whitespace characters
\* replaced by one space.
C20_BlankLineKept ==
    cpc \in {"loop", "done"} /\ text # <<>> =>
        /\ HasLongNewlineRun(text) => HasBlankLine(ntext)
        /\ ~HasLongNewlineRun(text) => ntext = SubWhitespace(text)

----------------------------------------------------------------------------
(* Claims about the steps of ingest_file *)

\* the step of ingest_file a request belongs to: 1 load and chunk, 2 embed,
\* 3 object store, 4 index
StepOf(op) ==
    CASE op = "load" -> 1
      [] op = "embed" -> 2
      [] op \in {"create_container", "upload_blob"} -> 3
      [] op \in {"list_indexes", "create_index", "upload"} -> 4

\* the files whose name is src
FilesNamed(src) == {k \in 1..Len(files) : files[k].name = src}

\* C21: the requests of one ingest_file follow the steps load and chunk,
\* embed, object store, index; the object store is left out exactly with
\* skip_upload; a failed request is the last of its call; so every record
\* of the index has its embedding and belongs to a document none of whose
\* embedding or object-store requests failed.
C21_StepsInOrder ==
    /\ \A i, j \in 1..Len(ilog) :
          i < j /\ ilog[i].file = ilog[j].file =>
              /\ StepOf(ilog[i].op) <= StepOf(ilog[j].op)
              /\ ilog[i].ok
    /\ \A j \in 1..Len(ilog) :
          /\ StepOf(ilog[j].op) = 3 => ~skip_upload
          /\ StepOf(ilog[j].op) = 4 /\ ~skip_upload =>
                \E i \in 1..(j - 1) : /\ ilog[i].file = ilog[j].file
                                      /\ ilog[i].op = "upload_blob"
          /\ StepOf(ilog[j].op) > 1 =>
                \E i \in 1..(j - 1) : /\ ilog[i].file = ilog[j].file
                                      /\ ilog[i].op = "load"
    /\ \A r \in index :
          /\ r.embedding = Emb(r.text)
          /\ \A k \in FilesNamed(r.source) : \A i \in RequestsFor(k) :
                StepOf(ilog[i].op) \in {2, 3} => ilog[i].ok

\* the upload of the first document failed and the second document went
\* through all the steps into the index
C21_Witness ==
    /\ ientry = "ingest_directory"
    /\ ipc = "dir_done"
    /\ Len(results) = 2
    /\ \E i \in RequestsFor(1) : ilog[i].op = "upload_blob" /\ ~ilog[i].ok
    /\ \E i \in RequestsFor(2) : ilog[i].op = "embed"
    /\ \E r \in index : r.source = files[2].name

----------------------------------------------------------------------------
(* Claims about the last chunk *)

\* the cursor stands `overlap` before the end of the text, after a chunk
\* that reached the end
CursorInLastOverlap ==
    /\ cpc = "loop"
    /\ chunks # <<>>
    /\ overlap > 0
    /\ start + overlap = Len(ntext)

\* C22: with overlap > 0, after a chunk of the non-final branch whose
\* boundary is the end of the normalized text the loop goes on from
\* `overlap` before the end and emits one more chunk, the last, made of the
\* last `overlap` characters, all of which the chunk before it ends with.
C22_FinalChunkIsOverlap ==
    [][/\ (/\ NonFinalIteration
           /\ overlap > 0
           /\ FindSentenceEnd(ntext, start + chunk_size) = Len(ntext)) =>
              /\ chunks'[Len(chunks')] = Slice(ntext, start, Len(ntext))
              /\ cpc' = "loop"
              /\ start' = Len(ntext) - overlap
       /\ CursorInLastOverlap =>
              /\ chunks' = Append(chunks, Slice(ntext, Len(ntext) - overlap,
                                                Len(ntext)))
              /\ cpc' = "done"
              /\ EndsWith(chunks[Len(chunks)], chunks'[Len(chunks')])]_vars

\* "aa." cut with chunk_size 2 and overlap 1: the first chunk is the whole
\* text, the last one its final character
C22_Witness ==
    /\ ntext = <<"a", "a", ".">>
    /\ chunk_size = 2
    /\ overlap = 1
    /\ chunks = << <<"a", "a", ".">>, <<".">> >>
    /\ cpc = "done"

----------------------------------------------------------------------------
(* Claims about ingesting a document again *)

\* the backend accepted every record of every upload
AllRecordsAccepted ==
    \A i \in 1..Len(reports) : reports[i].success_count = reports[i].size

\* both calls of ingest_file have returned
IngestedTwice ==
    /\ ientry = "ingest_file"
    /\ ipc = "returned"
    /\ Len(results) = 2

\* C23: the chunks of a process_document call are numbered 0..n-1 and have
\* ids all different; when the same document has been ingested twice with
\* success, every record accepted, the index holds 2n records, two for each
\* chunk position: the second ingestion replaced nothing.
C23_ReingestionAddsRecords ==
    /\ \A i \in 1..Len(doc_chunks) : doc_chunks[i].chunk_id = i - 1
    /\ \A i, j \in 1..Len(doc_chunks) :
          i # j => doc_chunks[i].id # doc_chunks[j].id
    /\ IngestedTwice /\ AllRecordsAccepted =>
          /\ Cardinality(index) = 2 * Len(doc_chunks)
          /\ \A k \in 0..(Len(doc_chunks) - 1) :
                Cardinality({r \in index : r.chunk_id = k}) = 2

\* a document of more than one embedding batch was ingested twice
C23_Witness ==
    /\ IngestedTwice
    /\ AllRecordsAccepted
    /\ Len(doc_chunks) = EMBED_BATCH_SIZE + 1
    /\ Cardinality(index) = 2 * (EMBED_BATCH_SIZE + 1)

----------------------------------------------------------------------------
(* Claims about the query command *)

\* the search requests issued so far
SearchRequests == {i \in 1..Len(qlog) : qlog[i].op = "search"}

\* the line is a question: no exit word and not made of whitespace
IsQuestion(l) == Lower(l) \notin ExitWords /\ Strip(l) # <<>>

\* C24: in interactive mode every search request goes out without filter,
\* whatever --filter says, and in one-shot mode with the --filter value;
\* in interactive mode only lines that are neither an exit word nor
\* whitespace are embedded and searched, each at most once.
C24_InteractiveIgnoresFilter ==
    /\ qmode = "interactive" =>
          /\ \A i \in SearchRequests : qlog[i].arg = "None"
          /\ \A i \in 1..Len(qlog) :
                qlog[i].op = "embed" =>
                    \E k \in 1..Len(lines) : /\ qlog[i].arg = <<lines[k]>>
                                             /\ IsQuestion(lines[k])
          /\ Cardinality(SearchRequests)
                <= Cardinality({k \in 1..Len(lines) : IsQuestion(lines[k])})
    /\ qmode = "oneshot" =>
          \A i \in SearchRequests : qlog[i].arg = cli_filter

\* a session started with --filter read a blank line and then a question,
\* which was searched
C24_Witness ==
    /\ qmode = "interactive"
    /\ cli_filter # "None"
    /\ Len(lines) = 2
    /\ Strip(lines[1]) = <<>>
    /\ SearchRequests # {}

====
